---- MODULE Spec2Model ----
(***************************************************************************)
(* Model of "MiniPlaces Scene Recognition/SceneRecognition.py":            *)
(* the two classifiers SimpleFCNet and SimpleConvNet (construction, layer  *)
(* shapes, mode-dependent forward) and the loops train_model / test_model. *)
(*                                                                         *)
(* Numbers: every tensor element is held as an exact rational <<n, d>>     *)
(* with d > 0.  Loss values and gradients are held in units of 1/4, so     *)
(* that the dropout scale 1/(1 - 0.2) = 5/4 stays exact.                   *)
(***************************************************************************)
EXTENDS Integers, Sequences, FiniteSets, TLC

VARIABLES
    \* ---- the classifier object
    kind,          \* "none" | "SimpleFCNet" | "SimpleConvNet"
    input_shape,   \* constructor argument <<height, width>>
    num_classes,   \* constructor argument
    built,         \* "none" | "built" | "ConfigurationError"
    fc_dim,        \* local fc_dim of SimpleConvNet.__init__ (0 when not computed)
    linear_in,     \* in_features of the first nn.Linear of self.layers
    training,      \* nn.Module.training
    params,        \* [w, b] of the classification layer, one entry per class
    bn,            \* BatchNorm2d buffers [running_mean (tenths), num_batches_tracked]
    grads,         \* accumulated .grad of the parameters [w, b] (units of 1/4)
    opt,           \* optimizer state [steps]
    \* ---- a shape-only forward call (constructor specification)
    fwdStatus,     \* "none" | "ok" | "RuntimeError"
    fwdShape,      \* shape of the returned tensor
    \* ---- the running call of train_model / test_model
    pc,            \* position in the running function
    fn,            \* "none" | "train_model" | "test_model" | "forward"
    loader,        \* the DataLoader [dataset, batch_size, drop_last]
    idx,           \* number of batches the iterator has yielded
    batch,         \* the current (input, target): a sequence of [x, y]
    out,           \* outputs / output of the current batch
    loss,          \* loss.item() of the current batch (units of 1/4)
    train_loss,    \* the local train_loss
    correct,       \* the local correct
    result,        \* the returned value, a fraction [num, den]
    error,         \* the exception that left the function, "none" if none
    \* ---- history
    trace,         \* statements executed by the running train_model
    losses,        \* [count, sum] of the loss.item() values added so far
    preds,         \* [seen, hits]: examples test_model has seen, and those predicted right
    pre,           \* [params, bn, grads, opt, training] at entry of the running call
    lastStep,      \* [params, bn, opt] at entry of the running call, then after
                   \* its last optimizer.step()
    failed,        \* a computation of the running call has failed
    fwdLog,        \* the last forward call
    prevFwd        \* the forward call before it

objVars  == <<kind, input_shape, num_classes, built, fc_dim, linear_in>>
netVars  == <<training, params, bn, grads, opt>>
shpVars  == <<fwdStatus, fwdShape>>
loopVars == <<pc, fn, loader, idx, batch, out, loss, train_loss, correct, result, error>>
histVars == <<trace, losses, preds, pre, lastStep, failed, fwdLog, prevFwd>>
vars     == <<objVars, netVars, shpVars, loopVars, histVars>>

----------------------------------------------------------------------------
(* Bounds of the model *)

MinSize      == 10
MaxSize      == 34
MaxBatchSize == 2
MaxSamples   == 3
MaxSteps     == 2
MaxDropped   == 1
MaxForwards  == 3

Sizes       == MinSize..MaxSize
ClassCounts == {2, 10, 100}
BatchSizes  == 1..MaxBatchSize

----------------------------------------------------------------------------
(* Layer shapes *)

KernelSize   == 3
PoolSize     == 2
ConvChannels == 32
FCInFeatures   == 784
ConvInFeatures == 1152

\* nn.Conv2d(kernel_size=3, stride=1), no padding: one spatial dimension
Conv2dOut(n) == n - KernelSize + 1

\* nn.MaxPool2d(kernel_size=2, stride=2): floor((n - 2) / 2) + 1
MaxPool2dOut(n) == (n - PoolSize) \div PoolSize + 1

\* one spatial dimension after conv, pool, conv, pool
Reduced(n) == MaxPool2dOut(Conv2dOut(MaxPool2dOut(Conv2dOut(n))))

\* number of features nn.Flatten hands to the first nn.Linear of SimpleConvNet
FlattenedSize(shape) == ConvChannels * Reduced(shape[1]) * Reduced(shape[2])

\* the local fc_dim as SimpleConvNet.__init__ computes it
FcDim(shape) == 16 * (shape[1] \div 4 - 3) * (shape[2] \div 4 - 3)

\* nn.Flatten on a [B, H, W] batch of SimpleFCNet
FlattenFC(shape) == shape[1] * shape[2]

\* nn.Linear(in_features, _) accepts an input whose last dimension is in_features
LinearAccepts(in_features, width) == width = in_features

----------------------------------------------------------------------------
(* Tensors: a row is a sequence of rationals <<n, d>>, one per class *)

SoftmaxBits == 8


RECURSIVE SumSeq(_)
SumSeq(s) == IF s = <<>> THEN 0 ELSE Head(s) + SumSeq(Tail(s))

RECURSIVE Pow2(_)
Pow2(n) == IF n <= 0 THEN 1 ELSE 2 * Pow2(n - 1)

Rat(n)       == <<n, 1>>
Floor(r)     == r[1] \div r[2]
Quarters(r)  == (4 * r[1]) \div r[2]
RatLess(r, s) == r[1] * s[2] < s[1] * r[2]
RatEq(r, s)   == r[1] * s[2] = s[1] * r[2]

\* index of the first maximal element: torch.max(1)[1]
Argmax(row) ==
    CHOOSE i \in DOMAIN row :
        /\ \A j \in DOMAIN row : ~RatLess(row[i], row[j])
        /\ \A j \in DOMAIN row : j < i => RatLess(row[j], row[i])

MaxOf(row) == row[Argmax(row)]

\* nn.functional.softmax over the class dimension: exp(l_i - max) / sum, in
\* base 2 with SoftmaxBits fractional bits (smaller terms underflow to 0)
Softmax(row) ==
    LET m   == Floor(MaxOf(row))
        num == [i \in DOMAIN row |->
                   IF m - Floor(row[i]) > SoftmaxBits THEN 0
                   ELSE Pow2(SoftmaxBits - (m - Floor(row[i])))]
    IN  [i \in DOMAIN row |-> <<num[i], SumSeq(num)>>]

\* fault: a dropout layer that ignores the mode flag
DropoutInEveryMode(v, keep, train) ==
    IF keep THEN <<5 * v[1], 4 * v[2]>> ELSE Rat(0)

\* nn.Dropout(p=0.2): identity in inference; in training an element is zeroed
\* or scaled by 1 / (1 - p) = 5/4
Dropout(v, keep, train) ==
    IF train THEN (IF keep THEN <<5 * v[1], 4 * v[2]>> ELSE Rat(0)) ELSE v

\* the masks the random source can draw for a batch of b examples: each
\* element is dropped or kept; the model explores up to MaxDropped drops
Dropped(m) == Cardinality({e \in (DOMAIN m) \X (DOMAIN m[1]) : ~m[e[1]][e[2]]})
Masks(b, nc) == {m \in [1..b -> [1..nc -> BOOLEAN]] : Dropped(m) <= MaxDropped}
AllKept(b, nc) == [i \in 1..b |-> [c \in 1..nc |-> TRUE]]

BatchMean(bt) == SumSeq([i \in DOMAIN bt |-> bt[i].x]) \div Len(bt)

\* nn.BatchNorm2d: batch statistics in training, running statistics in inference
Features(k, stats, bt, train) ==
    [i \in DOMAIN bt |->
        IF k = "SimpleConvNet"
        THEN bt[i].x - (IF train THEN BatchMean(bt) ELSE stats.running_mean \div 10)
        ELSE bt[i].x]

\* nn.BatchNorm2d in training: running = 0.9 running + 0.1 batch (held in tenths)
BNUpdate(k, stats, bt, train) ==
    IF k = "SimpleConvNet" /\ train
    THEN [running_mean |-> (9 * stats.running_mean) \div 10 + BatchMean(bt),
          num_batches_tracked |-> stats.num_batches_tracked + 1]
    ELSE stats

\* self.layers(x): one row of class scores per example
Layers(k, p, stats, bt, train, keep) ==
    LET f == Features(k, stats, bt, train)
    IN  [i \in DOMAIN bt |->
            [c \in DOMAIN p.w |->
                IF k = "SimpleConvNet"
                THEN Dropout(Rat(p.w[c] * f[i] + p.b[c]), keep[i][c], train)
                ELSE Rat(p.w[c] * f[i] + p.b[c])]]

\* forward(x): raw self.layers(x) in training, softmax(dim=1) of it otherwise
Forward(k, p, stats, bt, train, keep) ==
    LET rows == Layers(k, p, stats, bt, train, keep)
    IN  IF train THEN rows ELSE [i \in DOMAIN rows |-> Softmax(rows[i])]

\* criterion(outputs, target): a scalar, in units of 1/4
Criterion(rows, bt) ==
    SumSeq([i \in DOMAIN bt |-> Quarters(MaxOf(rows[i])) - Quarters(rows[i][bt[i].y])])

ZeroGrads(nc) == [w |-> [c \in 1..nc |-> 0], b |-> [c \in 1..nc |-> 0]]

\* d out[i][c] / d logit[i][c], in units of 1/4
Slope(k, keep, i, c) == IF k = "SimpleConvNet" THEN (IF keep[i][c] THEN 5 ELSE 0) ELSE 4

\* loss.backward(): the gradient of Criterion, added to the accumulated .grad
Backward(k, stats, g, rows, bt, keep) ==
    LET f == Features(k, stats, bt, TRUE)
        d(i, c) == IF Argmax(rows[i]) = bt[i].y THEN 0
                   ELSE IF c = Argmax(rows[i]) THEN Slope(k, keep, i, c)
                   ELSE IF c = bt[i].y THEN 0 - Slope(k, keep, i, c)
                   ELSE 0
    IN  [w |-> [c \in DOMAIN g.w |-> g.w[c] + SumSeq([i \in DOMAIN bt |-> d(i, c) * f[i]])],
         b |-> [c \in DOMAIN g.b |-> g.b[c] + SumSeq([i \in DOMAIN bt |-> d(i, c)])]]

\* optimizer.step(): p <- p - lr * grad
OptimizerStep(p, g) ==
    [w |-> [c \in DOMAIN p.w |-> p.w[c] - g.w[c]],
     b |-> [c \in DOMAIN p.b |-> p.b[c] - g.b[c]]]


----------------------------------------------------------------------------
(* Construction *)

NoFraction == [num |-> 0, den |-> 1]
NoLosses   == [count |-> 0, sum |-> 0]
NoPreds    == [seen |-> 0, hits |-> 0]
NoFwd      == [training |-> FALSE, caller |-> "none", x |-> <<>>, keep |-> <<>>,
               p |-> <<>>, stats |-> <<>>, rows |-> <<>>, out |-> <<>>]
NoShapeFwd == [status |-> "none", batch_size |-> 0, training |-> FALSE]
ZeroStats  == [running_mean |-> 0, num_batches_tracked |-> 0]

Alternating(nc, s) == [c \in 1..nc |-> IF c % 2 = 1 THEN s ELSE 0 - s]

\* SimpleFCNet.reset_params: xavier_uniform_ weights (a random draw), zero biases
ResetParams(nc) ==
    { [w |-> Alternating(nc, s), b |-> [c \in 1..nc |-> 0]] : s \in {-1, 1} }

\* nn.Linear default initialisation of SimpleConvNet: random weights and biases
DefaultParams(nc) ==
    { [w |-> Alternating(nc, s), b |-> [c \in 1..nc |-> IF c = 1 THEN 1 ELSE 0]] :
        s \in {-1} }

\* what SimpleFCNet.__init__ ends with: it has no raise statement
FCCtorOutcome(shape, nc) == "built"

\* what SimpleConvNet.__init__ ends with: fc_dim is computed and never compared
ConvCtorOutcome(shape, nc) == "built"

\* the state of the loop and history variables while no call is running
IdleCall ==
    /\ pc = "idle" /\ fn = "none"
    /\ loader = [dataset |-> <<>>, batch_size |-> 1, drop_last |-> FALSE]
    /\ idx = 0 /\ out = [rows |-> <<>>, keep |-> <<>>]
    /\ loss = 0 /\ train_loss = 0 /\ correct = 0
    /\ result = NoFraction /\ error = "none"

IdleLoop == IdleCall /\ batch = <<>>

IdleHist ==
    /\ trace = <<>> /\ losses = NoLosses /\ preds = NoPreds
    /\ pre = <<>> /\ lastStep = <<>> /\ failed = FALSE
    /\ fwdLog = NoFwd /\ prevFwd = NoFwd

\* SimpleFCNet(input_shape, num_classes)
NewSimpleFCNet(shape, nc) ==
    /\ built = "none"
    /\ kind' = "SimpleFCNet"
    /\ input_shape' = shape
    /\ num_classes' = nc
    /\ fc_dim' = 0
    /\ linear_in' = FCInFeatures
    /\ built' = FCCtorOutcome(shape, nc)
    /\ training' = TRUE
    /\ params' \in ResetParams(nc)
    /\ bn' = ZeroStats
    /\ grads' = ZeroGrads(nc)
    /\ UNCHANGED <<opt, shpVars, loopVars, histVars>>

\* SimpleConvNet(input_shape, num_classes)
NewSimpleConvNet(shape, nc) ==
    /\ built = "none"
    /\ kind' = "SimpleConvNet"
    /\ input_shape' = shape
    /\ num_classes' = nc
    /\ fc_dim' = FcDim(shape)
    /\ linear_in' = ConvInFeatures
    /\ built' = ConvCtorOutcome(shape, nc)
    /\ training' = TRUE
    /\ params' \in DefaultParams(nc)
    /\ bn' = ZeroStats
    /\ grads' = ZeroGrads(nc)
    /\ UNCHANGED <<opt, shpVars, loopVars, histVars>>

\* width of the tensor that reaches the first nn.Linear of self.layers for an
\* input batch of the configured shape
FlattenWidth(k, shape) ==
    IF k = "SimpleConvNet" THEN FlattenedSize(shape) ELSE FlattenFC(shape)

\* shape of forward(x) for x of the configured shape: softmax keeps the shape
ForwardShape(k, shape, nc, lin, b) ==
    IF LinearAccepts(lin, FlattenWidth(k, shape)) THEN <<b, nc>> ELSE <<>>

\* fault: a loop that does not call model.train()
ModuleTrainKeepsMode(t) == t

\* model.train(): the value of self.training afterwards
ModuleTrain(t) == TRUE

\* fault: a loop that does not call model.eval()
ModuleEvalKeepsMode(t) == t

\* model.eval(): the value of self.training afterwards
ModuleEval(t)  == FALSE

SetTrain ==
    /\ built = "built" /\ pc = "idle"
    /\ training' = ModuleTrain(training)
    /\ UNCHANGED <<objVars, params, bn, grads, opt, shpVars, loopVars, histVars>>

SetEval ==
    /\ built = "built" /\ pc = "idle"
    /\ training' = ModuleEval(training)
    /\ UNCHANGED <<objVars, params, bn, grads, opt, shpVars, loopVars, histVars>>

\* model(x) on a batch of b examples of the configured shape: shapes only
ShapeForward(b) ==
    /\ built = "built"
    /\ LET s == ForwardShape(kind, input_shape, num_classes, linear_in, b)
       IN  /\ fwdShape' = s
           /\ fwdStatus' = [status |-> IF s = <<>> THEN "RuntimeError" ELSE "ok",
                            batch_size |-> b, training |-> training]
    /\ UNCHANGED <<objVars, netVars, loopVars, histVars>>

InitCtor ==
    /\ kind = "none" /\ input_shape = <<0, 0>> /\ num_classes = 0
    /\ built = "none" /\ fc_dim = 0 /\ linear_in = 0
    /\ training = TRUE /\ params = <<>> /\ bn = ZeroStats /\ grads = <<>>
    /\ opt = [steps |-> 0]
    /\ fwdStatus = NoShapeFwd /\ fwdShape = <<>>
    /\ IdleLoop /\ IdleHist

NextCtor ==
    \/ \E h \in Sizes, w \in Sizes, nc \in ClassCounts : NewSimpleFCNet(<<h, w>>, nc)
    \/ \E h \in Sizes, w \in Sizes, nc \in ClassCounts : NewSimpleConvNet(<<h, w>>, nc)
    \/ SetTrain
    \/ SetEval
    \/ \E b \in BatchSizes : ShapeForward(b)

SpecCtor == InitCtor /\ [][NextCtor]_vars

\* C1: constructing SimpleConvNet fails with a ConfigurationError if and only if
\* the flattened feature size of the configured input shape differs from the
\* hard-coded dense-layer input width 1152.
C1_CtorFailsIffMismatch ==
    (kind = "SimpleConvNet" /\ built # "none") =>
        ((built = "ConfigurationError") <=> (FlattenedSize(input_shape) # ConvInFeatures))

\* C2: the value the constructor computes (fc_dim) and the input width of the
\* first dense layer both equal 32 x H2 x W2 of the configured input shape.
C2_DenseWidthIsFlattenedSize ==
    (kind = "SimpleConvNet" /\ built = "built") =>
        /\ fc_dim = FlattenedSize(input_shape)
        /\ linear_in = FlattenedSize(input_shape)

\* C3: SimpleFCNet flattens a batch of the configured shape to height x width
\* features, which its first affine transform accepts, and forward returns a
\* tensor of shape [batch_size, num_classes] in both modes.
C3_DenseForwardShape ==
    (kind = "SimpleFCNet" /\ fwdStatus.status # "none") =>
        /\ LinearAccepts(linear_in, FlattenFC(input_shape))
        /\ fwdStatus.status = "ok"
        /\ fwdShape = <<fwdStatus.batch_size, num_classes>>

----------------------------------------------------------------------------
(* The data loader *)

\* len(loader.dataset)
LenDataset(l) == Len(l.dataset)

\* len(loader): the number of batches a DataLoader yields
LenLoader(l) ==
    IF l.drop_last THEN LenDataset(l) \div l.batch_size
    ELSE (LenDataset(l) + l.batch_size - 1) \div l.batch_size

Min(a, b) == IF a <= b THEN a ELSE b

\* the k-th (input, target) pair the iterator yields
BatchAt(l, k) ==
    SubSeq(l.dataset, (k - 1) * l.batch_size + 1, Min(k * l.batch_size, LenDataset(l)))

\* the examples of the datasets: example i has pixel 1,2,2,1,... and label 1,2,1,2,...
Example(i) == [x |-> 1 + ((i \div 2) % 2), y |-> 1 + ((i + 1) % 2)]

Datasets == { [i \in 1..n |-> Example(i)] : n \in 0..MaxSamples }

Loaders == [dataset : Datasets, batch_size : BatchSizes, drop_last : BOOLEAN]

\* every batch some loader yields
Batches == UNION { {BatchAt(l, k) : k \in 1..LenLoader(l)} : l \in Loaders }

\* the classifier of the loops has one output per label of the data
Labels == {Example(i).y : i \in 1..MaxSamples}

----------------------------------------------------------------------------
(* train_model *)

Snapshot == [params |-> params, bn |-> bn, grads |-> grads, opt |-> opt,
             training |-> training]
StepState(p, stats, o) == [params |-> p, bn |-> stats, opt |-> o]

LogEntry(caller, train, rows, o) ==
    [training |-> train, caller |-> caller, x |-> <<>>, keep |-> <<>>,
     p |-> <<>>, stats |-> <<>>, rows |-> rows, out |-> o]

\* the masks nn.Dropout draws: only SimpleConvNet has a dropout layer
Draws(k, b, nc) == IF k = "SimpleConvNet" THEN Masks(b, nc) ELSE {AllKept(b, nc)}

CanCall == built = "built" /\ pc = "idle"

\* the model explores training until MaxSteps batches have been trained on
WithinBudget(l) ==
    /\ opt.steps + LenLoader(l) <= MaxSteps
    /\ bn.num_batches_tracked + LenLoader(l) <= MaxSteps

\* fault: optimizer.step() placed before loss.backward()
NextStmtStepBeforeBackward(p) ==
    CASE p = "t_zero"     -> "t_forward"
      [] p = "t_forward"  -> "t_loss"
      [] p = "t_loss"     -> "t_step"
      [] p = "t_step"     -> "t_backward"
      [] p = "t_backward" -> "t_accum"
      [] p = "t_accum"    -> "t_iter"

\* the statement that follows statement p in the body of the training loop
NextStmt(p) ==
    CASE p = "t_zero"     -> "t_forward"
      [] p = "t_forward"  -> "t_loss"
      [] p = "t_loss"     -> "t_backward"
      [] p = "t_backward" -> "t_step"
      [] p = "t_step"     -> "t_accum"
      [] p = "t_accum"    -> "t_iter"

\* fault: a handler that swallows the exception and goes on with the next batch
OnRaiseSkipBatch(p) == "t_iter"

\* where control goes when a statement of train_model raises: there is no
\* try/except, the exception leaves the function
OnRaise(p) == "raised"

\* fault: the mean taken over the samples
TrainDivisorSamples(l) == LenDataset(l)

\* the divisor of 'train_loss /= len(train_loader)'
TrainDivisor(l) == LenLoader(l)

\* train_model(model, train_loader, optimizer, criterion, epoch): entry
CallTrain(l) ==
    /\ CanCall /\ WithinBudget(l)
    /\ fn' = "train_model" /\ loader' = l
    /\ training' = ModuleTrain(training)
    /\ train_loss' = 0
    /\ pc' = "t_iter"
    /\ idx' = 0 /\ batch' = <<>> /\ out' = [rows |-> <<>>, keep |-> <<>>]
    /\ loss' = 0 /\ correct' = 0 /\ result' = NoFraction /\ error' = "none"
    /\ trace' = <<>> /\ losses' = NoLosses /\ preds' = NoPreds /\ failed' = FALSE
    /\ pre' = Snapshot
    /\ lastStep' = StepState(params, bn, opt)
    /\ fwdLog' = NoFwd /\ prevFwd' = NoFwd
    /\ UNCHANGED <<objVars, params, bn, grads, opt, shpVars>>

\* for input, target in train_loader
TrainIter ==
    /\ pc = "t_iter"
    /\ IF idx < LenLoader(loader)
       THEN /\ batch' = BatchAt(loader, idx + 1)
            /\ idx' = idx + 1
            /\ pc' = "t_zero"
       ELSE /\ pc' = "t_finish"
            /\ UNCHANGED <<batch, idx>>
    /\ UNCHANGED <<objVars, netVars, shpVars, fn, loader, out, loss, train_loss,
                   correct, result, error, histVars>>

\* optimizer.zero_grad()
TrainZeroGrad ==
    /\ pc = "t_zero"
    /\ grads' = ZeroGrads(num_classes)
    /\ trace' = Append(trace, "zero_grad")
    /\ pc' = NextStmt(pc)
    /\ UNCHANGED <<objVars, training, params, bn, opt, shpVars, fn, loader, idx, batch,
                   out, loss, train_loss, correct, result, error,
                   losses, preds, pre, lastStep, failed, fwdLog, prevFwd>>

\* outputs = model(input)
TrainForward ==
    /\ pc = "t_forward"
    /\ \E keep \in Draws(kind, Len(batch), num_classes) :
          /\ out' = [rows |-> Forward(kind, params, bn, batch, training, keep),
                     keep |-> keep]
          /\ fwdLog' = LogEntry(fn, training,
                                Layers(kind, params, bn, batch, training, keep),
                                Forward(kind, params, bn, batch, training, keep))
    /\ prevFwd' = NoFwd
    /\ bn' = BNUpdate(kind, bn, batch, training)
    /\ trace' = Append(trace, "forward")
    /\ pc' = NextStmt(pc)
    /\ UNCHANGED <<objVars, training, params, grads, opt, shpVars, fn, loader, idx, batch,
                   loss, train_loss, correct, result, error,
                   losses, preds, pre, lastStep, failed>>

\* loss = criterion(outputs, target)
TrainLoss ==
    /\ pc = "t_loss"
    /\ loss' = Criterion(out.rows, batch)
    /\ trace' = Append(trace, "loss")
    /\ pc' = NextStmt(pc)
    /\ UNCHANGED <<objVars, netVars, shpVars, fn, loader, idx, batch, out,
                   train_loss, correct, result, error,
                   losses, preds, pre, lastStep, failed, fwdLog, prevFwd>>

\* loss.backward()
TrainBackward ==
    /\ pc = "t_backward"
    /\ grads' = Backward(kind, bn, grads, out.rows, batch, out.keep)
    /\ trace' = Append(trace, "backward")
    /\ pc' = NextStmt(pc)
    /\ UNCHANGED <<objVars, training, params, bn, opt, shpVars, fn, loader, idx, batch,
                   out, loss, train_loss, correct, result, error,
                   losses, preds, pre, lastStep, failed, fwdLog, prevFwd>>

\* optimizer.step()
TrainStep ==
    /\ pc = "t_step"
    /\ params' = OptimizerStep(params, grads)
    /\ opt' = [steps |-> opt.steps + 1]
    /\ lastStep' = StepState(params', bn, opt')
    /\ trace' = Append(trace, "step")
    /\ pc' = NextStmt(pc)
    /\ UNCHANGED <<objVars, training, bn, grads, shpVars, fn, loader, idx, batch,
                   out, loss, train_loss, correct, result, error,
                   losses, preds, pre, failed, fwdLog, prevFwd>>

\* train_loss += loss.item()
TrainAccum ==
    /\ pc = "t_accum"
    /\ train_loss' = train_loss + loss
    /\ losses' = [count |-> losses.count + 1, sum |-> losses.sum + loss]
    /\ pc' = NextStmt(pc)
    /\ UNCHANGED <<objVars, netVars, shpVars, fn, loader, idx, batch, out, loss,
                   correct, result, error,
                   trace, preds, pre, lastStep, failed, fwdLog, prevFwd>>

\* model(input) raises part-way through self.layers: the BatchNorm2d layers
\* before the failing layer may already have updated their running statistics
TrainForwardFails ==
    /\ pc = "t_forward"
    /\ bn' \in {bn, BNUpdate(kind, bn, batch, training)}
    /\ error' = "ComputationError" /\ failed' = TRUE
    /\ trace' = Append(trace, "forward")
    /\ pc' = OnRaise(pc)
    /\ UNCHANGED <<objVars, training, params, grads, opt, shpVars, fn, loader, idx, batch,
                   out, loss, train_loss, correct, result,
                   losses, preds, pre, lastStep, fwdLog, prevFwd>>

\* criterion(outputs, target) raises
TrainLossFails ==
    /\ pc = "t_loss"
    /\ error' = "ComputationError" /\ failed' = TRUE
    /\ trace' = Append(trace, "loss")
    /\ pc' = OnRaise(pc)
    /\ UNCHANGED <<objVars, netVars, shpVars, fn, loader, idx, batch, out, loss,
                   train_loss, correct, result,
                   losses, preds, pre, lastStep, fwdLog, prevFwd>>

\* loss.backward() raises: gradients may be partly accumulated
TrainBackwardFails ==
    /\ pc = "t_backward"
    /\ grads' \in {grads, Backward(kind, bn, grads, out.rows, batch, out.keep)}
    /\ error' = "ComputationError" /\ failed' = TRUE
    /\ trace' = Append(trace, "backward")
    /\ pc' = OnRaise(pc)
    /\ UNCHANGED <<objVars, training, params, bn, opt, shpVars, fn, loader, idx, batch,
                   out, loss, train_loss, correct, result,
                   losses, preds, pre, lastStep, fwdLog, prevFwd>>

\* train_loss /= len(train_loader); print(...); return train_loss
TrainFinish ==
    /\ pc = "t_finish"
    /\ IF TrainDivisor(loader) = 0
       THEN /\ error' = "ZeroDivisionError"
            /\ pc' = "raised"
            /\ UNCHANGED result
       ELSE /\ result' = [num |-> train_loss, den |-> TrainDivisor(loader)]
            /\ pc' = "returned"
            /\ UNCHANGED error
    /\ UNCHANGED <<objVars, netVars, shpVars, fn, loader, idx, batch, out, loss,
                   train_loss, correct, histVars>>

----------------------------------------------------------------------------
(* test_model *)

\* fault: the accuracy divided by the number of batches
TestDivisorBatches(l) == LenLoader(l)

\* the divisor of 'test_acc = correct / len(test_loader.dataset)'
TestDivisor(l) == LenDataset(l)

\* pred.eq(target.view_as(pred)).sum().item() for output.max(1, keepdim=True)[1]
Matches(rows, bt) == Cardinality({i \in DOMAIN bt : Argmax(rows[i]) = bt[i].y})

\* test_model(model, test_loader, epoch): entry
CallTest(l) ==
    /\ CanCall
    /\ fn' = "test_model" /\ loader' = l
    /\ training' = ModuleEval(training)
    /\ correct' = 0
    /\ pc' = "e_iter"
    /\ idx' = 0 /\ batch' = <<>> /\ out' = [rows |-> <<>>, keep |-> <<>>]
    /\ loss' = 0 /\ train_loss' = 0 /\ result' = NoFraction /\ error' = "none"
    /\ trace' = <<>> /\ losses' = NoLosses /\ preds' = NoPreds /\ failed' = FALSE
    /\ pre' = Snapshot
    /\ lastStep' = StepState(params, bn, opt)
    /\ fwdLog' = NoFwd /\ prevFwd' = NoFwd
    /\ UNCHANGED <<objVars, params, bn, grads, opt, shpVars>>

\* for input, target in test_loader
TestIter ==
    /\ pc = "e_iter"
    /\ IF idx < LenLoader(loader)
       THEN /\ batch' = BatchAt(loader, idx + 1)
            /\ idx' = idx + 1
            /\ pc' = "e_forward"
       ELSE /\ pc' = "e_finish"
            /\ UNCHANGED <<batch, idx>>
    /\ UNCHANGED <<objVars, netVars, shpVars, fn, loader, out, loss, train_loss,
                   correct, result, error, histVars>>

\* output = model(input), under torch.no_grad(): no graph is recorded
TestForward ==
    /\ pc = "e_forward"
    /\ \E keep \in Draws(kind, Len(batch), num_classes) :
          /\ out' = [rows |-> Forward(kind, params, bn, batch, training, keep),
                     keep |-> <<>>]
          /\ fwdLog' = LogEntry(fn, training,
                                Layers(kind, params, bn, batch, training, keep),
                                Forward(kind, params, bn, batch, training, keep))
    /\ prevFwd' = NoFwd
    /\ bn' = BNUpdate(kind, bn, batch, training)
    /\ pc' = "e_count"
    /\ UNCHANGED <<objVars, training, params, grads, opt, shpVars, fn, loader, idx, batch,
                   loss, train_loss, correct, result, error,
                   trace, losses, preds, pre, lastStep, failed>>

\* pred = output.max(1, keepdim=True)[1]; correct += pred.eq(...).sum().item()
TestCount ==
    /\ pc = "e_count"
    /\ correct' = correct + Matches(out.rows, batch)
    /\ preds' = [seen |-> preds.seen + Len(batch),
                  hits |-> preds.hits + SumSeq([i \in DOMAIN batch |->
                              IF Argmax(out.rows[i]) = batch[i].y THEN 1 ELSE 0])]
    /\ pc' = "e_iter"
    /\ UNCHANGED <<objVars, netVars, shpVars, fn, loader, idx, batch, out, loss,
                   train_loss, result, error,
                   trace, losses, pre, lastStep, failed, fwdLog, prevFwd>>

\* test_acc = correct / len(test_loader.dataset); print(...); return test_acc
TestFinish ==
    /\ pc = "e_finish"
    /\ IF TestDivisor(loader) = 0
       THEN /\ error' = "ZeroDivisionError"
            /\ pc' = "raised"
            /\ UNCHANGED result
       ELSE /\ result' = [num |-> correct, den |-> TestDivisor(loader)]
            /\ pc' = "returned"
            /\ UNCHANGED error
    /\ UNCHANGED <<objVars, netVars, shpVars, fn, loader, idx, batch, out, loss,
                   train_loss, correct, histVars>>

\* the call has returned or raised: its frame is discarded and the caller goes on
Resume ==
    /\ pc \in {"returned", "raised"}
    /\ pc' = "idle" /\ fn' = "none"
    /\ loader' = [dataset |-> <<>>, batch_size |-> 1, drop_last |-> FALSE]
    /\ idx' = 0 /\ batch' = <<>> /\ out' = [rows |-> <<>>, keep |-> <<>>]
    /\ loss' = 0 /\ train_loss' = 0 /\ correct' = 0
    /\ result' = NoFraction /\ error' = "none"
    /\ trace' = <<>> /\ losses' = NoLosses /\ preds' = NoPreds
    /\ pre' = <<>> /\ lastStep' = <<>> /\ failed' = FALSE
    /\ fwdLog' = NoFwd /\ prevFwd' = NoFwd
    /\ UNCHANGED <<objVars, netVars, shpVars>>

----------------------------------------------------------------------------
(* The loops on a constructed classifier *)

DefaultShape(k) == IF k = "SimpleConvNet" THEN <<32, 32>> ELSE <<28, 28>>

InitNet ==
    /\ kind \in {"SimpleFCNet", "SimpleConvNet"}
    /\ input_shape = DefaultShape(kind)
    /\ num_classes = Cardinality(Labels)
    /\ built = "built"
    /\ fc_dim = IF kind = "SimpleConvNet" THEN FcDim(input_shape) ELSE 0
    /\ linear_in = IF kind = "SimpleConvNet" THEN ConvInFeatures ELSE FCInFeatures
    /\ training = TRUE
    /\ params \in IF kind = "SimpleConvNet" THEN DefaultParams(num_classes)
                  ELSE ResetParams(num_classes)
    /\ bn = ZeroStats
    /\ grads = ZeroGrads(num_classes)
    /\ opt = [steps |-> 0]
    /\ fwdStatus = NoShapeFwd /\ fwdShape = <<>>

Init == InitNet /\ IdleLoop /\ IdleHist

Next ==
    \/ \E l \in Loaders : CallTrain(l)
    \/ TrainIter
    \/ TrainZeroGrad
    \/ TrainForward
    \/ TrainLoss
    \/ TrainBackward
    \/ TrainStep
    \/ TrainAccum
    \/ TrainForwardFails
    \/ TrainLossFails
    \/ TrainBackwardFails
    \/ TrainFinish
    \/ \E l \in Loaders : CallTest(l)
    \/ TestIter
    \/ TestForward
    \/ TestCount
    \/ TestFinish
    \/ Resume

Spec == Init /\ [][Next]_vars

----------------------------------------------------------------------------
(* Claims about train_model and test_model *)

Pattern == <<"zero_grad", "forward", "loss", "backward", "step">>

Count(t, name) == Cardinality({i \in DOMAIN t : t[i] = name})

InTrain == fn = "train_model" /\ pc # "idle"
InTest  == fn = "test_model" /\ pc # "idle"

\* C4 (amended): for every data source with at least one batch, train_model
\* returns the sum of the per-batch scalar losses divided by the number of
\* batches, not by the number of samples.
C4_TrainMeanOverBatches ==
    (InTrain /\ pc = "returned") =>
        /\ idx > 0
        /\ losses.count = idx
        /\ result.num = losses.sum
        /\ result.den = losses.count

\* a source of 2 batches holding 3 samples: the mean is over the 2 batches
C4_Witness ==
    /\ InTrain /\ pc = "returned"
    /\ losses.count = 2 /\ LenDataset(loader) = 3 /\ losses.sum > 0

\* C4 as stated: for every finite data source train_model returns the sum of the
\* per-batch losses divided by the number of batches.
C4_Original ==
    (InTrain /\ pc \in {"returned", "raised"} /\ ~failed) =>
        /\ pc = "returned"
        /\ result.num = losses.sum
        /\ result.den = losses.count

\* C5 (amended): for every data source with a non-empty dataset, test_model
\* returns the number of examples whose argmax equals the target divided by
\* len(test_loader.dataset), the size of the dataset (which exceeds the number
\* of samples yielded when the loader drops a last incomplete batch); the value
\* is counted over the whole epoch and lies in [0,1].
C5_AccuracyOverDataset ==
    (InTest /\ pc = "returned") =>
        /\ result.num = preds.hits
        /\ result.den = LenDataset(loader)
        /\ preds.seen <= LenDataset(loader)
        /\ result.den > 0
        /\ 0 <= result.num /\ result.num <= result.den

\* a loader that drops its last batch, with at least one right prediction
C5_Witness ==
    /\ InTest /\ pc = "returned"
    /\ preds.hits > 0 /\ preds.seen < LenDataset(loader) /\ idx > 0

\* C5 as stated, for the calls that return after at least one sample: the
\* returned value is the number of right predictions divided by the number of
\* samples the data source yields over the epoch.
C5_Original ==
    (InTest /\ pc = "returned" /\ preds.seen > 0) =>
        RatEq(<<result.num, result.den>>, <<preds.hits, preds.seen>>)

\* C6: a call of test_model leaves every weight, bias, normalization statistic,
\* accumulated gradient and the optimizer state as they were at its entry.
C6_TestLeavesStateUnchanged ==
    InTest =>
        /\ params = pre.params
        /\ bn = pre.bn
        /\ grads = pre.grads
        /\ opt = pre.opt

\* test_model has run over a convolutional classifier that was in training
\* mode and had been trained
C6_Witness ==
    /\ InTest /\ pc = "returned" /\ kind = "SimpleConvNet"
    /\ pre.training /\ preds.seen >= 2 /\ opt.steps > 0

\* C7: every forward pass inside train_model runs in training mode and returns
\* the raw output of the layer stack; every forward pass inside test_model runs
\* in inference mode and returns the softmax of that output over the classes.
C7_ModeAndOutputPerLoop ==
    /\ (InTrain => training)
    /\ (InTest => ~training)
    /\ (fwdLog.caller = "train_model" =>
            fwdLog.training /\ fwdLog.out = fwdLog.rows)
    /\ (fwdLog.caller = "test_model" =>
            /\ ~fwdLog.training
            /\ fwdLog.out = [i \in DOMAIN fwdLog.rows |-> Softmax(fwdLog.rows[i])])

\* a training forward pass of a classifier that a test_model call had left in
\* inference mode
C7_Witness ==
    /\ InTrain /\ fwdLog.caller = "train_model"
    /\ ~pre.training /\ kind = "SimpleConvNet"

\* C9: per batch, zero_grad, forward, loss, backward and optimizer step run once
\* each in this order, batch after batch; an epoch over n batches performs
\* exactly n gradient resets and n update steps.
C9_StepOrder ==
    InTrain =>
        /\ \A i \in DOMAIN trace : trace[i] = Pattern[((i - 1) % Len(Pattern)) + 1]
        /\ pc = "t_zero" => Len(trace) = Len(Pattern) * (idx - 1)
        /\ pc = "returned" =>
              /\ idx = LenLoader(loader)
              /\ Len(trace) = Len(Pattern) * idx
              /\ Count(trace, "zero_grad") = idx
              /\ Count(trace, "step") = idx
              /\ opt.steps = pre.opt.steps + idx

\* an epoch over two batches has returned
C9_Witness == InTrain /\ pc = "returned" /\ idx = 2

\* C10 (amended): a failure of the forward pass, loss computation or
\* backpropagation of batch k leaves train_model as an exception; the batch is
\* neither retried nor skipped, no later batch is processed, no mean loss is
\* returned, and the weights, biases and optimizer state are those left by the
\* optimizer step of batch k-1 (the normalization statistics may already
\* include batch k).
C10_FailurePropagates ==
    (InTrain /\ failed) =>
        /\ pc = "raised" /\ error = "ComputationError"
        /\ result = NoFraction
        /\ params = lastStep.params /\ opt = lastStep.opt
        /\ opt.steps = pre.opt.steps + idx - 1
        /\ losses.count = idx - 1
        /\ Len(trace) > Len(Pattern) * (idx - 1)
        /\ Len(trace) < Len(Pattern) * idx

\* the second batch failed after the normalization layers had seen it
C10_Witness ==
    /\ InTrain /\ failed /\ idx = 2
    /\ kind = "SimpleConvNet" /\ bn # lastStep.bn

\* C10 as stated: after the failure the weights, biases and normalization
\* statistics equal the state left by the optimizer step of batch k-1.
C10_Original ==
    (InTrain /\ failed) =>
        /\ pc = "raised"
        /\ params = lastStep.params
        /\ bn = lastStep.bn

----------------------------------------------------------------------------
(* Direct forward calls *)

FullEntry(train, bt, keep, p, stats, rows, o) ==
    [training |-> train, caller |-> "forward", x |-> bt, keep |-> keep,
     p |-> p, stats |-> stats, rows |-> rows, out |-> o]

\* model(batch), called directly on the input the caller holds
DirectForward ==
    /\ built = "built" /\ pc = "idle"
    /\ training => bn.num_batches_tracked < MaxForwards
    /\ \E keep \in Draws(kind, Len(batch), num_classes) :
          fwdLog' = FullEntry(training, batch, keep, params, bn,
                              Layers(kind, params, bn, batch, training, keep),
                              Forward(kind, params, bn, batch, training, keep))
    /\ prevFwd' = fwdLog
    /\ bn' = BNUpdate(kind, bn, batch, training)
    /\ UNCHANGED <<objVars, training, params, grads, opt, shpVars, loopVars,
                   trace, losses, preds, pre, lastStep, failed>>

\* a constructed classifier and a caller holding one input batch
InitFwd == InitNet /\ IdleCall /\ batch \in Batches /\ IdleHist

NextFwd ==
    \/ SetTrain
    \/ SetEval
    \/ DirectForward

SpecFwd == InitFwd /\ [][NextFwd]_vars

BothInference ==
    /\ prevFwd.caller = "forward" /\ fwdLog.caller = "forward"
    /\ ~prevFwd.training /\ ~fwdLog.training

SameCall ==
    /\ prevFwd.x = fwdLog.x
    /\ prevFwd.p = fwdLog.p
    /\ prevFwd.stats = fwdLog.stats

\* C8: in inference mode two forward calls of SimpleConvNet with identical input
\* and identical parameters return identical output, whatever the random source
\* draws: dropout changes the output only in training mode.
C8_InferenceIgnoresRandomSource ==
    (kind = "SimpleConvNet" /\ BothInference /\ SameCall) => prevFwd.out = fwdLog.out

\* two inference calls on the same input for which the random source drew
\* different masks
C8_Witness ==
    /\ kind = "SimpleConvNet" /\ BothInference /\ SameCall
    /\ prevFwd.keep # fwdLog.keep

====
